---- MODULE Spec2Model ----
(***************************************************************************)
(* A model of the trovo-chatbot client: the authenticated request executor *)
(* (src/src/api/client.rs, API::process_request) and the chat stream       *)
(* engine (src/src/api/stream/stream.rs).                                   *)
(***************************************************************************)
EXTENDS Integers, Sequences, FiniteSets, TLC

(***************************************************************************)
(* Bounds of the model.                                                    *)
(***************************************************************************)
\* how many times process_request is called on one API value
MaxCalls == 2
\* frames the server puts on the socket during one connection
MaxFrames == 3
\* chat items the server sends during one connection
MaxChats == 3
\* pings the Keepalive task makes during one connection
MaxPings == 1
\* further pings it makes on a connection that carries no chat
MorePings == 2

(***************************************************************************)
(* The state of one connection of the chat stream.                         *)
(***************************************************************************)
VARIABLES
    conn_pc,        \* connect: "start", "auth", "await", "returned"
    conn_ret,       \* what connect returned: "none", "Ok" or the error
    cancelled,      \* the CancellationToken all clones share
    auth_response,  \* the oneshot slot: "pending", "ok", "closed"
    resolutions,    \* how many times Ok(()) was put into the slot
    ws_in,          \* what the Reader's stream yields next, if it has come
    ws_out,         \* frames written to the socket, in order
    frames,         \* frames the server has sent
    arrived,        \* chat items the server has sent; they are numbered 1, 2, ...
    closure,        \* the first end of the socket the Reader met, and whether
                    \* the slot was still unresolved then
    rd_pc,          \* Reader: "none", "select", "ended", "forward", "send_err",
                    \*         "done", "panicked"
    rd_auth,        \* self.auth.1 is Some
    rd_ping,        \* the Reader's Ping
    rd_batch,       \* items of the batch the Reader has still to forward
    rd_err,         \* the error the Reader is forwarding, or the panic it ended with
    rd_last,        \* the Response the Reader handled last: its nonce, and
                    \* whether self.auth.1 was Some when it took it
    rd_pong,        \* how the Reader took the Pong it handled last: "none",
                    \* "unparsed", "stale" or "fresh"
    wr_pc,          \* Writer: "none", "select", "send_err", "done"
    wr_err,         \* the error the Writer is forwarding
    socket_messages,\* the command queue from the Pinger to the Writer
    pg_pc,          \* Pinger: "none", "sleep", "submit", "panicked"
    pg_ping,        \* the Pinger's Ping
    pg_slept,       \* the duration the Pinger's latest sleep was started with
    pg_sent,        \* the nonces of the Pings the Pinger has submitted, in order
    chat_messages,  \* the queue from the Reader and the Writer to the consumer
    handle,         \* the ChatMessageStream: "none", "open", "closed", "dropped"
    received,       \* the items next() has given the consumer, in order
    ended,          \* next() has returned None
    after_close     \* items next() has given after close() was called

streamVars == <<conn_pc, conn_ret, cancelled, auth_response, resolutions, ws_in,
                ws_out, frames, arrived, closure, rd_last, rd_pong, rd_pc, rd_auth, rd_ping,
                rd_batch, rd_err, wr_pc, wr_err, socket_messages, pg_pc,
                pg_ping, pg_slept, pg_sent, chat_messages, handle, received, ended,
                after_close>>

(***************************************************************************)
(* The authenticated request executor.                                     *)
(***************************************************************************)
VARIABLES
    access_token,     \* API.access_token: the number of the token issued last
    issued,           \* tokens the token endpoint has issued so far
    calls,            \* process_request calls started so far
    req_pc,           \* "idle", "send", "refresh", "returned", "panicked"
    loop_i,           \* iterations of `for _ in 0..5` completed
    attempt_counter,  \* the local attempt_counter
    result,           \* the local result: [kind, code]
    ret,              \* what the call returned, [kind, code]
    sent,             \* this call's attempts: <<[token, outcome]>>
    refreshes         \* this call's invocations of refresh

reqVars == <<access_token, issued, calls, req_pc, loop_i, attempt_counter,
             result, ret, sent, refreshes>>

\* the statuses the server answers with; 200 and 401 are the ones the code names
Statuses == {200, 401, 403, 500}

\* what an attempt can come to: the send fails, or a status comes back; a 200
\* body decodes or does not
Outcomes == {[kind |-> "transport_error", code |-> 0],
             [kind |-> "undecodable", code |-> 200]}
            \cup {[kind |-> "status", code |-> s] : s \in Statuses}

NoValue == [kind |-> "none", code |-> 0]
EmptyError == [kind |-> "EmptyError", code |-> 0]
OkPayload == [kind |-> "Ok", code |-> 200]
InvalidResponse(code) == [kind |-> "InvalidResponse", code |-> code]

\* `for _ in 0..5`: the loop body runs for 0, 1, 2, 3, 4
LoopEndsEarly(i) == i < 4
LoopContinues(i) == i < 5

\* `if attempt_counter >= 5`
ExhaustedOffByOne(counter) == counter > 5
Exhausted(counter) == counter >= 5

ReqInit ==
    /\ access_token = 0
    /\ issued = 0
    /\ calls = 0
    /\ req_pc = "idle"
    /\ loop_i = 0
    /\ attempt_counter = 0
    /\ result = NoValue
    /\ ret = NoValue
    /\ sent = <<>>
    /\ refreshes = 0

\* process_request is entered: result = Err(EmptyError), attempt_counter = 0
Call ==
    /\ req_pc \in {"idle", "returned"}
    /\ calls < MaxCalls
    /\ calls' = calls + 1
    /\ req_pc' = "send"
    /\ loop_i' = 0
    /\ attempt_counter' = 0
    /\ result' = EmptyError
    /\ ret' = NoValue
    /\ sent' = <<>>
    /\ refreshes' = 0
    /\ UNCHANGED <<access_token, issued>>
    /\ UNCHANGED streamVars

\* the function returns value v
Return(v) ==
    /\ req_pc' = "returned"
    /\ ret' = v

\* `break`, after which `result` is the function's value
Break(res) ==
    /\ loop_i' = loop_i
    /\ Return(res)

\* the loop body ran to its end: the next turn of `for _ in 0..5`, or, the range
\* used up, the end of the loop and `result` as the function's value
ContinueLoop(res) ==
    /\ loop_i' = loop_i + 1
    /\ IF LoopContinues(loop_i + 1)
       THEN /\ req_pc' = "send"
            /\ ret' = ret
       ELSE Return(res)

\* the 200 arm, with a body that decodes
On200NoBreak ==
    /\ result' = OkPayload
    /\ ContinueLoop(OkPayload)
    /\ UNCHANGED attempt_counter
On200 ==
    /\ result' = OkPayload
    /\ Break(OkPayload)
    /\ UNCHANGED attempt_counter

\* the 401 arm: the counter is incremented, then compared
On401(code) ==
    /\ attempt_counter' = attempt_counter + 1
    /\ IF Exhausted(attempt_counter + 1)
       THEN /\ result' = InvalidResponse(code)
            /\ Break(InvalidResponse(code))
       ELSE /\ result' = result
            /\ req_pc' = "refresh"
            /\ UNCHANGED <<loop_i, ret>>

\* the arm for any status other than 200 and 401
OnOtherStatusRetry(code) ==
    /\ result' = result
    /\ req_pc' = "refresh"
    /\ UNCHANGED <<attempt_counter, loop_i, ret>>
OnOtherStatus(code) ==
    /\ result' = InvalidResponse(code)
    /\ Break(InvalidResponse(code))
    /\ UNCHANGED attempt_counter

\* the turn with `?` replaced by a retry: a send or decode error ends the turn
\* and the loop goes round
AttemptRetriesOnError(o) ==
    /\ req_pc = "send"
    /\ sent' = Append(sent, [token |-> access_token, outcome |-> o])
    /\ UNCHANGED <<access_token, issued, calls, refreshes>>
    /\ CASE o.kind \in {"transport_error", "undecodable"} ->
                /\ ContinueLoop(result)
                /\ UNCHANGED <<attempt_counter, result>>
         [] o.kind = "status" /\ o.code = 200 -> On200
         [] o.kind = "status" /\ o.code = 401 -> On401(o.code)
         [] OTHER -> OnOtherStatus(o.code)
    /\ UNCHANGED streamVars
\* one turn of the loop up to its break, return or refresh: the request is
\* cloned, the Authorization header is built from self.access_token, the request
\* is sent and the response matched; `?` returns a send or decode error at once
Attempt(o) ==
    /\ req_pc = "send"
    /\ sent' = Append(sent, [token |-> access_token, outcome |-> o])
    /\ UNCHANGED <<access_token, issued, calls, refreshes>>
    /\ CASE o.kind = "transport_error" ->
                /\ Return([kind |-> "TransportError", code |-> 0])
                /\ UNCHANGED <<attempt_counter, result, loop_i>>
         [] o.kind = "undecodable" ->
                /\ Return([kind |-> "DecodeError", code |-> 0])
                /\ UNCHANGED <<attempt_counter, result, loop_i>>
         [] o.kind = "status" /\ o.code = 200 -> On200
         [] o.kind = "status" /\ o.code = 401 -> On401(o.code)
         [] OTHER -> OnOtherStatus(o.code)
    /\ UNCHANGED streamVars

\* refresh() without the assignment to self.access_token
RefreshKeepsToken ==
    /\ req_pc = "refresh"
    /\ issued' = issued + 1
    /\ UNCHANGED access_token
    /\ refreshes' = refreshes + 1
    /\ ContinueLoop(result)
    /\ UNCHANGED <<calls, attempt_counter, result, sent>>
    /\ UNCHANGED streamVars
\* self.refresh().await: update_tokens gives a new access token; then the loop
\* body is at its end
Refresh ==
    /\ req_pc = "refresh"
    /\ issued' = issued + 1
    /\ access_token' = issued + 1
    /\ refreshes' = refreshes + 1
    /\ ContinueLoop(result)
    /\ UNCHANGED <<calls, attempt_counter, result, sent>>
    /\ UNCHANGED streamVars

\* update_tokens unwraps the token endpoint's answer: a failed refresh panics
RefreshPanics ==
    /\ req_pc = "refresh"
    /\ req_pc' = "panicked"
    /\ refreshes' = refreshes + 1
    /\ UNCHANGED <<access_token, issued, calls, loop_i, attempt_counter,
                   result, ret, sent>>
    /\ UNCHANGED streamVars

ReqNext ==
    \/ Call
    \/ \E o \in Outcomes : Attempt(o)
    \/ Refresh
    \/ RefreshPanics

(***************************************************************************)
(* The chat stream: connect, the Reader, the Writer, the Keepalive task    *)
(* (Pinger) and the consumer of the handle.                                *)
(***************************************************************************)
\* const CHAT_MESSAGES_BUFFER: usize = 32
CHAT_MESSAGES_BUFFER == 32
\* mpsc::channel(1) of socket messages
SOCKET_MESSAGES_BUFFER == 1
\* const DEFAULT_PING_INTERVAL: Duration = Duration::from_secs(30)
DEFAULT_PING_INTERVAL == 30

\* impl Default for Ping
DefaultPing == [interval |-> DEFAULT_PING_INTERVAL, iteration |-> 0, acknowledged |-> 0]

\* the nonce connect generated, and any other nonce
AuthNonce == "auth"
OtherNonce == "other"
\* the gaps a Pong names, in seconds
Gaps == {10, 20}

\* What the Reader's stream yields. A Text and a Binary frame are decoded alike
\* and stand as the socket message they hold ("Garbage": one that does not
\* decode); "Error" is Some(Err(_)) and "End" is None.
Frame(k, n, g, it) == [kind |-> k, nonce |-> n, gap |-> g, items |-> it]
Batch(first, len) == [i \in 1..len |-> first + i - 1]
PlainFrames ==
    {Frame(k, "", 0, <<>>) :
        k \in {"Auth", "Ping", "Garbage", "WsPing", "WsPong", "Close", "Frame",
               "Error", "End"}}
ResponseFrames == {Frame("Response", n, 0, <<>>) : n \in {AuthNonce, OtherNonce}}
\* a nonce is a string: u64::to_string and str::parse::<u64>, on the numbers the
\* model uses; ParseU64 gives -1 for Err
U64s == 0..9
U64ToString(n) == ToString(n)
ParseU64(str) ==
    IF \E n \in U64s : ToString(n) = str
    THEN CHOOSE n \in U64s : ToString(n) = str
    ELSE -1
PongNonces == {"1", "2"}
PongFrames ==
    {Frame("Pong", n, g, <<>>) : n \in PongNonces, g \in Gaps}
    \cup {Frame("Pong", "NaN", 10, <<>>)}
\* the sizes of the batches the server sends
BatchSizes == {0, 1, 2}
ChatFrames(first) ==
    {Frame("Chat", "", 0, Batch(first, len)) :
        len \in {l \in BatchSizes : first - 1 + l <= MaxChats}}

Ok(chat) == [ok |-> TRUE, v |-> chat, e |-> ""]
Err(err) == [ok |-> FALSE, v |-> 0, e |-> err]

StreamInit ==
    /\ conn_pc = "start"
    /\ conn_ret = "none"
    /\ cancelled = FALSE
    /\ auth_response = "pending"
    /\ resolutions = 0
    /\ ws_in = <<>>
    /\ ws_out = <<>>
    /\ frames = 0
    /\ arrived = 0
    /\ closure = [seen |-> "none", unresolved |-> FALSE]
    /\ rd_pc = "none"
    /\ rd_auth = FALSE
    /\ rd_ping = DefaultPing
    /\ rd_batch = <<>>
    /\ rd_err = ""
    /\ rd_last = <<"", FALSE>>
    /\ rd_pong = "none"
    /\ wr_pc = "none"
    /\ wr_err = ""
    /\ socket_messages = <<>>
    /\ pg_pc = "none"
    /\ pg_ping = DefaultPing
    /\ pg_slept = 0
    /\ pg_sent = <<>>
    /\ chat_messages = <<>>
    /\ handle = "none"
    /\ received = <<>>
    /\ ended = FALSE
    /\ after_close = 0

\* the receiver of chat_messages is gone: connect returned an error and dropped
\* it, or the handle was dropped
ReceiverDropped ==
    \/ handle = "dropped"
    \/ conn_pc = "returned" /\ conn_ret # "Ok"

\* some Sender of chat_messages is alive: the Reader's clone, and the original,
\* which connect holds until it moves it into the Writer
ReaderAlive == rd_pc \in {"select", "ended", "forward", "send_err"}
WriterAlive == wr_pc \in {"select", "send_err"}
\* the same with a third clone in the Pinger
SenderAliveInPinger ==
    \/ ReaderAlive
    \/ WriterAlive
    \/ conn_pc \in {"auth", "await"}
    \/ pg_pc \in {"sleep", "submit"}
SenderAlive ==
    \/ ReaderAlive
    \/ WriterAlive
    \/ conn_pc \in {"auth", "await"}

(***************************************************************************)
(* The server and the network.                                             *)
(***************************************************************************)
SocketOpen == conn_pc # "start" /\ ~(conn_pc = "returned" /\ conn_ret = "OpenError")
ServerDone == \E i \in 1..Len(ws_in) : ws_in[i].kind = "End"

ServerSends(f) ==
    /\ SocketOpen
    /\ ~ServerDone
    /\ closure.seen # "End"
    \* what comes once the Reader has gone is read by nobody
    /\ ReaderAlive
    /\ frames < MaxFrames
    /\ ws_in = <<>>
    /\ frames' = frames + 1
    /\ ws_in' = Append(ws_in, f)
    /\ arrived' = arrived + Len(f.items)
    /\ UNCHANGED <<conn_pc, conn_ret, cancelled, auth_response, resolutions,
                   ws_out, closure, rd_last, rd_pong, rd_pc, rd_auth, rd_ping, rd_batch, rd_err,
                   wr_pc, wr_err, socket_messages, pg_pc, pg_ping, pg_slept, pg_sent,
                   chat_messages, handle, received, ended, after_close>>
    /\ UNCHANGED reqVars

ServerSend ==
    \E f \in PlainFrames \cup ResponseFrames \cup PongFrames \cup ChatFrames(arrived + 1) :
        ServerSends(f)

(***************************************************************************)
(* ChatMessageStream::connect                                              *)
(***************************************************************************)
\* connect_async(..).await?, the channels, the nonce, and reader.spawn()
ConnectOpen(ok) ==
    /\ conn_pc = "start"
    /\ IF ok
       THEN /\ conn_pc' = "auth"
            /\ rd_pc' = "select"
            /\ rd_auth' = TRUE
            /\ UNCHANGED conn_ret
       ELSE /\ conn_pc' = "returned"
            /\ conn_ret' = "OpenError"
            /\ UNCHANGED <<rd_pc, rd_auth>>
    /\ UNCHANGED <<cancelled, auth_response, resolutions, ws_in, ws_out, frames,
                   arrived, closure, rd_last, rd_pong, rd_ping, rd_batch, rd_err, wr_pc, wr_err,
                   socket_messages, pg_pc, pg_ping, pg_slept, pg_sent, chat_messages,
                   handle, received, ended, after_close>>
    /\ UNCHANGED reqVars

\* serde_json::to_string(&Auth{..})? and writer.send(msg.into()).await?
SendAuth(ok) ==
    /\ conn_pc = "auth"
    /\ IF ok
       THEN /\ conn_pc' = "await"
            /\ ws_out' = Append(ws_out, "Auth")
            /\ UNCHANGED conn_ret
       ELSE /\ conn_pc' = "returned"
            /\ conn_ret' = "SendError"
            /\ UNCHANGED ws_out
    /\ UNCHANGED <<cancelled, auth_response, resolutions, ws_in, frames, arrived,
                   closure, rd_last, rd_pong, rd_pc, rd_auth, rd_ping, rd_batch, rd_err,
                   wr_pc, wr_err,
                   socket_messages, pg_pc, pg_ping, pg_slept, pg_sent, chat_messages,
                   handle, received, ended, after_close>>
    /\ UNCHANGED reqVars

\* connect going on without the slot having been resolved
AwaitAuthSpawnsEarly ==
    /\ conn_pc = "await"
    /\ conn_pc' = "returned"
    /\ IF auth_response # "closed"
       THEN /\ conn_ret' = "Ok"
            /\ wr_pc' = "select"
            /\ pg_pc' = "sleep"
            /\ pg_slept' = pg_ping.interval
            /\ UNCHANGED pg_sent
            /\ handle' = "open"
       ELSE /\ conn_ret' = "SocketClosed"
            /\ UNCHANGED <<wr_pc, pg_pc, pg_slept, pg_sent, handle>>
    /\ UNCHANGED <<cancelled, auth_response, resolutions, ws_in, ws_out, frames,
                   arrived, closure, rd_last, rd_pong, rd_pc, rd_auth, rd_ping, rd_batch, rd_err,
                   socket_messages, wr_err, pg_ping, chat_messages, received, ended, after_close>>
    /\ UNCHANGED reqVars
\* auth_response_receiver.await.map_err(|_| SocketClosed)??, then writer.spawn(),
\* pinger.spawn() and Ok(ChatMessageStream{..})
AwaitAuth ==
    /\ conn_pc = "await"
    /\ auth_response # "pending"
    /\ conn_pc' = "returned"
    /\ IF auth_response = "ok"
       THEN /\ conn_ret' = "Ok"
            /\ wr_pc' = "select"
            /\ pg_pc' = "sleep"
            /\ pg_slept' = pg_ping.interval
            /\ UNCHANGED pg_sent
            /\ handle' = "open"
       ELSE /\ conn_ret' = "SocketClosed"
            /\ UNCHANGED <<wr_pc, pg_pc, pg_slept, pg_sent, handle>>
    /\ UNCHANGED <<cancelled, auth_response, resolutions, ws_in, ws_out, frames,
                   arrived, closure, rd_last, rd_pong, rd_pc, rd_auth, rd_ping, rd_batch, rd_err,
                   socket_messages, wr_err, pg_ping, chat_messages, received, ended, after_close>>
    /\ UNCHANGED reqVars

(***************************************************************************)
(* SocketMessagesReader                                                    *)
(***************************************************************************)
\* what no step of the Reader changes
ReaderFrame ==
    /\ UNCHANGED <<conn_pc, conn_ret, ws_out, frames, arrived, wr_pc, wr_err,
                   socket_messages, pg_pc, pg_ping, pg_slept, pg_sent, handle, received, ended, after_close>>
    /\ UNCHANGED reqVars

\* the task ends and the Reader is dropped: Drop cancels the token, and the
\* oneshot Sender, if still there, is dropped unsent
ReaderExits(pc) ==
    /\ rd_pc' = pc
    /\ cancelled' = TRUE
    /\ rd_auth' = FALSE
    /\ auth_response' = IF rd_auth /\ auth_response = "pending"
                        THEN "closed" ELSE auth_response

\* Continuation::Continue: back to the select! of next()
ReaderContinuesResets ==
    /\ rd_pc' = "select"
    /\ cancelled' = FALSE
ReaderContinues ==
    /\ rd_pc' = "select"
    /\ UNCHANGED cancelled

\* ChatSocketMessage::Response { nonce }
OnResponseDropsSender(nonce) ==
    /\ IF AuthNonce = nonce /\ rd_auth
       THEN /\ rd_auth' = FALSE
            /\ auth_response' = IF auth_response = "pending" THEN "closed" ELSE auth_response
            /\ UNCHANGED resolutions
       ELSE UNCHANGED <<rd_auth, auth_response, resolutions>>
    /\ ReaderContinues
    /\ UNCHANGED <<rd_ping, rd_batch, rd_err, chat_messages>>
OnResponseAnyNonce(nonce) ==
    /\ IF rd_auth
       THEN /\ rd_auth' = FALSE
            /\ IF conn_pc \in {"auth", "await"}
               THEN /\ auth_response' = "ok"
                    /\ resolutions' = resolutions + 1
               ELSE UNCHANGED <<auth_response, resolutions>>
       ELSE UNCHANGED <<rd_auth, auth_response, resolutions>>
    /\ ReaderContinues
    /\ UNCHANGED <<rd_ping, rd_batch, rd_err, chat_messages>>
OnResponse(nonce) ==
    /\ IF AuthNonce = nonce /\ rd_auth
       THEN /\ rd_auth' = FALSE
            \* auth.send(Ok(())).ok(): lost when connect has dropped the receiver
            /\ IF conn_pc \in {"auth", "await"}
               THEN /\ auth_response' = "ok"
                    /\ resolutions' = resolutions + 1
               ELSE UNCHANGED <<auth_response, resolutions>>
       ELSE UNCHANGED <<rd_auth, auth_response, resolutions>>
    /\ ReaderContinues
    /\ UNCHANGED <<rd_ping, rd_batch, rd_err, chat_messages>>

\* which arm of the Pong handling a nonce takes, given self.ping.acknowledged
PongTaken(nonce) ==
    IF ParseU64(nonce) = -1 THEN "unparsed"
    ELSE IF ParseU64(nonce) > rd_ping.acknowledged THEN "fresh"
    ELSE "stale"

\* ChatSocketMessage::Pong { nonce, data }
OnPongReplays(nonce, gap) ==
    /\ LET iteration == ParseU64(nonce) IN
       IF iteration # -1 /\ iteration >= rd_ping.acknowledged
       THEN rd_ping' = [rd_ping EXCEPT !.acknowledged = iteration, !.interval = gap]
       ELSE UNCHANGED rd_ping
    /\ ReaderContinues
    /\ UNCHANGED <<rd_auth, auth_response, resolutions, rd_batch, rd_err, chat_messages>>
OnPong(nonce, gap) ==
    /\ LET iteration == ParseU64(nonce) IN
       IF iteration # -1 /\ iteration > rd_ping.acknowledged
       THEN rd_ping' = [rd_ping EXCEPT !.acknowledged = iteration, !.interval = gap]
       ELSE UNCHANGED rd_ping
    /\ ReaderContinues
    /\ UNCHANGED <<rd_auth, auth_response, resolutions, rd_batch, rd_err, chat_messages>>

\* `for chat in data.chats`: the order in which the items of a batch are taken
IterOrderReversed(chats) == [i \in 1..Len(chats) |-> chats[Len(chats) + 1 - i]]
IterOrder(chats) == chats

\* ChatSocketMessage::Chat { data }: the loop is entered
OnChat(chats) ==
    /\ rd_batch' = IterOrder(chats)
    /\ rd_pc' = IF chats = <<>> THEN "select" ELSE "forward"
    /\ UNCHANGED <<cancelled, rd_auth, auth_response, resolutions, rd_ping,
                   rd_err, chat_messages>>

\* the error logged and let go: Continuation::Continue
OnErrorIgnored(err) ==
    /\ ReaderContinues
    /\ UNCHANGED <<rd_auth, auth_response, resolutions, rd_ping, rd_batch,
                   rd_err, chat_messages>>
\* handle_message returns Err(err), or `msg?` does: spawn forwards it
OnError(err) ==
    /\ rd_err' = err
    /\ rd_pc' = "send_err"
    /\ UNCHANGED <<cancelled, rd_auth, auth_response, resolutions, rd_ping,
                   rd_batch, chat_messages>>

\* todo!() and unreachable!(): the task panics with that message and the Reader
\* is dropped
OnPanic(why) ==
    /\ ReaderExits("panicked")
    /\ rd_err' = why
    /\ UNCHANGED <<resolutions, rd_ping, rd_batch, chat_messages>>

\* the first end of the socket the Reader meets, for the record
Meets(kind) ==
    closure' = IF closure.seen = "none" /\ kind \in {"Close", "Error", "End"}
               THEN [seen |-> kind, unresolved |-> rd_auth]
               ELSE closure

\* next(): the reader branch of select! wins, and handle_message
ReaderReceives ==
    /\ rd_pc = "select"
    /\ ws_in # <<>>
    /\ ws_in' = Tail(ws_in)
    /\ Meets(Head(ws_in).kind)
    /\ rd_last' = IF Head(ws_in).kind = "Response"
                  THEN <<Head(ws_in).nonce, rd_auth>> ELSE rd_last
    /\ rd_pong' = IF Head(ws_in).kind = "Pong"
                  THEN PongTaken(Head(ws_in).nonce) ELSE rd_pong
    /\ LET msg == Head(ws_in) IN
       CASE msg.kind = "Response" -> OnResponse(msg.nonce)
         [] msg.kind = "Pong" -> OnPong(msg.nonce, msg.gap)
         [] msg.kind = "Chat" -> OnChat(msg.items)
         [] msg.kind \in {"Auth", "Ping"} -> OnPanic("unreachable")
         [] msg.kind \in {"WsPing", "WsPong"} -> OnPanic("todo")
         [] msg.kind = "Garbage" -> OnError("Decode")
         [] msg.kind = "Close" -> OnError("SocketClosed")
         [] msg.kind = "Error" -> OnError("WebSocket")
         [] msg.kind = "Frame" ->
                /\ ReaderContinues
                /\ UNCHANGED <<rd_auth, auth_response, resolutions, rd_ping,
                               rd_batch, rd_err, chat_messages>>
         \* None: the branch is disabled and select! waits on for the
         \* cancellation, the one branch left
         [] msg.kind = "End" ->
                /\ rd_pc' = "ended"
                /\ UNCHANGED <<cancelled, rd_auth, auth_response, resolutions,
                               rd_ping, rd_batch, rd_err, chat_messages>>
    /\ ReaderFrame

\* next(): the cancellation branch of select! wins: Continuation::Stop
ReaderCancelled ==
    /\ rd_pc \in {"select", "ended"}
    /\ cancelled
    /\ ReaderExits("done")
    /\ UNCHANGED <<resolutions, ws_in, closure, rd_last, rd_pong, rd_ping, rd_batch, rd_err,
                   chat_messages>>
    /\ ReaderFrame

\* chat_messages_sender.send(Ok(chat)).await inside the loop: an error when the
\* receiver is gone (Continuation::Stop), a wait while the queue is full
ReaderForwardsDrops ==
    /\ rd_pc = "forward"
    /\ IF ReceiverDropped
       THEN /\ ReaderExits("done")
            /\ rd_batch' = <<>>
            /\ UNCHANGED chat_messages
       ELSE /\ chat_messages' = IF Len(chat_messages) < CHAT_MESSAGES_BUFFER
                                THEN Append(chat_messages, Ok(Head(rd_batch)))
                                ELSE chat_messages
            /\ rd_batch' = Tail(rd_batch)
            /\ rd_pc' = IF Tail(rd_batch) = <<>> THEN "select" ELSE "forward"
            /\ UNCHANGED <<cancelled, rd_auth, auth_response>>
    /\ UNCHANGED <<resolutions, ws_in, closure, rd_last, rd_pong, rd_ping, rd_err>>
    /\ ReaderFrame
\* the loop without its return on a failed send: the item is skipped
ReaderForwardsSkips ==
    /\ rd_pc = "forward"
    /\ IF ReceiverDropped
       THEN UNCHANGED chat_messages
       ELSE /\ Len(chat_messages) < CHAT_MESSAGES_BUFFER
            /\ chat_messages' = Append(chat_messages, Ok(Head(rd_batch)))
    /\ rd_batch' = Tail(rd_batch)
    /\ rd_pc' = IF Tail(rd_batch) = <<>> THEN "select" ELSE "forward"
    /\ UNCHANGED <<cancelled, rd_auth, auth_response>>
    /\ UNCHANGED <<resolutions, ws_in, closure, rd_last, rd_pong, rd_ping, rd_err>>
    /\ ReaderFrame
ReaderForwards ==
    /\ rd_pc = "forward"
    /\ IF ReceiverDropped
       THEN /\ ReaderExits("done")
            /\ rd_batch' = <<>>
            /\ UNCHANGED chat_messages
       ELSE /\ Len(chat_messages) < CHAT_MESSAGES_BUFFER
            /\ chat_messages' = Append(chat_messages, Ok(Head(rd_batch)))
            /\ rd_batch' = Tail(rd_batch)
            /\ rd_pc' = IF Tail(rd_batch) = <<>> THEN "select" ELSE "forward"
            /\ UNCHANGED <<cancelled, rd_auth, auth_response>>
    /\ UNCHANGED <<resolutions, ws_in, closure, rd_last, rd_pong, rd_ping, rd_err>>
    /\ ReaderFrame

\* the Err arm of spawn without its break: the loop goes round again
ReaderSendsErrGoesOn ==
    /\ rd_pc = "send_err"
    /\ IF ReceiverDropped
       THEN UNCHANGED chat_messages
       ELSE /\ Len(chat_messages) < CHAT_MESSAGES_BUFFER
            /\ chat_messages' = Append(chat_messages, Err(rd_err))
    /\ ReaderContinues
    /\ UNCHANGED <<rd_auth, auth_response>>
    /\ UNCHANGED <<resolutions, ws_in, closure, rd_last, rd_pong, rd_ping, rd_batch, rd_err>>
    /\ ReaderFrame
\* spawn: chat_messages_sender.send(Err(err)).await.ok(); break
ReaderSendsErr ==
    /\ rd_pc = "send_err"
    /\ IF ReceiverDropped
       THEN UNCHANGED chat_messages
       ELSE /\ Len(chat_messages) < CHAT_MESSAGES_BUFFER
            /\ chat_messages' = Append(chat_messages, Err(rd_err))
    /\ ReaderExits("done")
    /\ UNCHANGED <<resolutions, ws_in, closure, rd_last, rd_pong, rd_ping, rd_batch, rd_err>>
    /\ ReaderFrame

(***************************************************************************)
(* SocketMessagesWriter                                                    *)
(***************************************************************************)
WriterFrame ==
    /\ UNCHANGED <<conn_pc, conn_ret, auth_response, resolutions, ws_in, frames,
                   arrived, closure, rd_last, rd_pong, rd_pc, rd_auth, rd_ping, rd_batch, rd_err,
                   pg_pc, pg_ping, pg_slept, pg_sent, handle, received, ended,
                   after_close>>
    /\ UNCHANGED reqVars

\* the task ends and the Writer is dropped: Drop cancels the token
WriterExits ==
    /\ wr_pc' = "done"
    /\ cancelled' = TRUE

\* next(): the cancellation branch wins
WriterCancelled ==
    /\ wr_pc = "select"
    /\ cancelled
    /\ WriterExits
    /\ UNCHANGED <<ws_out, socket_messages, chat_messages, wr_err>>
    /\ WriterFrame

\* handle_message(msg).await without its `?`: a failed send is let go
WriterHandlesLetsGo(ok) ==
    /\ wr_pc = "select"
    /\ socket_messages # <<>>
    /\ socket_messages' = Tail(socket_messages)
    /\ ws_out' = IF ok THEN Append(ws_out, Head(socket_messages)) ELSE ws_out
    /\ UNCHANGED <<wr_pc, wr_err, cancelled, chat_messages>>
    /\ WriterFrame
\* next(): a command is received and handle_message writes it to the socket; the
\* Pinger holds the queue's one Sender and ends only after the Writer has, so
\* recv() never gives None
WriterHandles(ok) ==
    /\ wr_pc = "select"
    /\ socket_messages # <<>>
    /\ socket_messages' = Tail(socket_messages)
    /\ IF ok
       THEN /\ ws_out' = Append(ws_out, Head(socket_messages))
            /\ wr_pc' = "select"
            /\ UNCHANGED wr_err
       ELSE /\ wr_pc' = "send_err"
            /\ wr_err' = "WebSocket"
            /\ UNCHANGED ws_out
    /\ UNCHANGED <<cancelled, chat_messages>>
    /\ WriterFrame

\* spawn: chat_messages_sender.send(Err(err)).await.ok(); break
WriterSendsErr ==
    /\ wr_pc = "send_err"
    /\ IF ReceiverDropped
       THEN UNCHANGED chat_messages
       ELSE /\ Len(chat_messages) < CHAT_MESSAGES_BUFFER
            /\ chat_messages' = Append(chat_messages, Err(wr_err))
    /\ WriterExits
    /\ UNCHANGED <<ws_out, socket_messages, wr_err>>
    /\ WriterFrame

(***************************************************************************)
(* Pinger                                                                  *)
(***************************************************************************)
PingerFrame ==
    /\ UNCHANGED <<conn_pc, conn_ret, cancelled, auth_response, resolutions,
                   ws_in, ws_out, frames, arrived, closure, rd_last, rd_pong, rd_pc, rd_auth,
                   rd_ping, rd_batch, rd_err, wr_pc, wr_err, chat_messages, handle,
                   received, ended, after_close>>
    /\ UNCHANGED reqVars

\* the wake without the increment
PingerWakesSameCount ==
    /\ pg_pc = "sleep"
    /\ pg_ping.iteration < MaxPings
    /\ pg_pc' = "submit"
    /\ UNCHANGED <<pg_ping, pg_slept, pg_sent, socket_messages>>
    /\ PingerFrame
\* sleep(self.ping.interval).await is over; self.ping.iteration += 1
PingerWakes ==
    /\ pg_pc = "sleep"
    /\ pg_ping.iteration < MaxPings
    /\ UNCHANGED <<pg_slept, pg_sent>>
    /\ pg_ping' = [pg_ping EXCEPT !.iteration = pg_ping.iteration + 1]
    /\ pg_pc' = "submit"
    /\ UNCHANGED socket_messages
    /\ PingerFrame

\* the failed send let go (`_ => {}` for both arms): the loop comes round
PingerSubmitsSpins ==
    /\ pg_pc = "submit"
    /\ IF wr_pc = "done"
       THEN UNCHANGED <<socket_messages, pg_sent>>
       ELSE /\ Len(socket_messages) < SOCKET_MESSAGES_BUFFER
            /\ socket_messages' =
                   Append(socket_messages, U64ToString(pg_ping.iteration))
            /\ pg_sent' = Append(pg_sent, U64ToString(pg_ping.iteration))
    /\ pg_pc' = "sleep"
    /\ pg_slept' = pg_ping.interval
    /\ UNCHANGED pg_ping
    /\ PingerFrame
\* socket_messages_sender.send(Ping{nonce}).await: a panic when the Writer has
\* dropped the receiver, a wait while the queue is full; then the loop comes
\* round to sleep(self.ping.interval)
PingerSubmits ==
    /\ pg_pc = "submit"
    /\ IF wr_pc = "done"
       THEN /\ pg_pc' = "panicked"
            /\ UNCHANGED <<socket_messages, pg_slept, pg_sent>>
       ELSE /\ Len(socket_messages) < SOCKET_MESSAGES_BUFFER
            /\ socket_messages' =
                   Append(socket_messages, U64ToString(pg_ping.iteration))
            /\ pg_pc' = "sleep"
            /\ pg_slept' = pg_ping.interval
            /\ pg_sent' = Append(pg_sent, U64ToString(pg_ping.iteration))
    /\ UNCHANGED pg_ping
    /\ PingerFrame

\* the same wake past the bound on the pings made, when the Writer has gone:
\* the ping it counts is made by nobody
PingerWakesLast ==
    /\ pg_pc = "sleep"
    /\ pg_ping.iteration >= MaxPings
    /\ wr_pc = "done"
    /\ pg_ping' = [pg_ping EXCEPT !.iteration = pg_ping.iteration + 1]
    /\ pg_pc' = "submit"
    /\ UNCHANGED <<pg_slept, pg_sent, socket_messages>>
    /\ PingerFrame

\* the same wake past that bound, on the connection that carries no chat
PingerWakesAgain ==
    /\ pg_pc = "sleep"
    /\ pg_ping.iteration >= MaxPings
    /\ pg_ping.iteration < MaxPings + MorePings
    /\ pg_ping' = [pg_ping EXCEPT !.iteration = pg_ping.iteration + 1]
    /\ pg_pc' = "submit"
    /\ UNCHANGED <<pg_slept, pg_sent, socket_messages>>
    /\ PingerFrame

(***************************************************************************)
(* The consumer of the ChatMessageStream                                   *)
(***************************************************************************)
ConsumerFrame ==
    /\ UNCHANGED <<conn_pc, conn_ret, auth_response, resolutions, ws_in, ws_out,
                   frames, arrived, closure, rd_last, rd_pong, rd_pc, rd_auth, rd_ping, rd_batch,
                   rd_err, wr_pc, wr_err, socket_messages, pg_pc, pg_ping, pg_slept, pg_sent>>
    /\ UNCHANGED reqVars

\* poll_next: self.messages.poll_recv(cx) gives the oldest item, or None once
\* the queue is empty and every Sender is gone
PollNext ==
    /\ handle \in {"open", "closed"}
    /\ IF chat_messages # <<>>
       THEN /\ received' = Append(received, Head(chat_messages))
            /\ chat_messages' = Tail(chat_messages)
            /\ after_close' = IF handle = "closed" THEN after_close + 1 ELSE after_close
            /\ UNCHANGED ended
       ELSE /\ ~SenderAlive
            /\ ended' = TRUE
            /\ UNCHANGED <<received, chat_messages, after_close>>
    /\ UNCHANGED <<cancelled, handle>>
    /\ ConsumerFrame

\* close(): self.cancellation_token.cancel()
Close ==
    /\ handle \in {"open", "closed"}
    /\ handle' = "closed"
    /\ cancelled' = TRUE
    /\ UNCHANGED <<chat_messages, received, ended, after_close>>
    /\ ConsumerFrame

\* Drop for ChatMessageStream: close(), and the receiver goes with what it holds
DropHandle ==
    /\ handle \in {"open", "closed"}
    /\ handle' = "dropped"
    /\ cancelled' = TRUE
    /\ chat_messages' = <<>>
    /\ UNCHANGED <<received, ended, after_close>>
    /\ ConsumerFrame

StreamNext ==
    \/ ServerSend
    \/ \E ok \in BOOLEAN : ConnectOpen(ok)
    \/ \E ok \in BOOLEAN : SendAuth(ok)
    \/ AwaitAuth
    \/ ReaderReceives
    \/ ReaderCancelled
    \/ ReaderForwards
    \/ ReaderSendsErr
    \/ WriterCancelled
    \/ \E ok \in BOOLEAN : WriterHandles(ok)
    \/ WriterSendsErr
    \/ PingerWakes
    \/ PingerSubmits
    \/ PollNext
    \/ Close
    \/ DropHandle

vars == <<reqVars, streamVars>>

Init == ReqInit /\ StreamInit

\* the request executor alone
SpecRequest == Init /\ [][ReqNext]_vars

\* one connection of the chat stream
Spec == Init /\ [][StreamNext]_vars

\* the tasks are polled whenever they can run: a step of connect, of the Reader,
\* of the Writer or of the Pinger that stays possible is taken; the server and
\* the consumer owe nothing
ConnectStep ==
    \/ \E ok \in BOOLEAN : ConnectOpen(ok)
    \/ \E ok \in BOOLEAN : SendAuth(ok)
    \/ AwaitAuth
ReaderStep == ReaderReceives \/ ReaderCancelled \/ ReaderForwards \/ ReaderSendsErr
WriterStep == WriterCancelled \/ (\E ok \in BOOLEAN : WriterHandles(ok)) \/ WriterSendsErr
FairSpec ==
    /\ Init
    /\ [][StreamNext]_vars
    /\ WF_vars(ConnectStep)
    /\ WF_vars(ReaderStep)
    /\ WF_vars(WriterStep)
    /\ WF_vars(PingerSubmits)

(***************************************************************************)
(* A connection on which the server sends, besides the Response and a      *)
(* Close frame, one batch that is one item longer than the consumer's      *)
(* queue, to a consumer that has fallen behind: it calls next() only when  *)
(* the queue is full.                                                      *)
(***************************************************************************)
Burst == Frame("Chat", "", 0, Batch(1, CHAT_MESSAGES_BUFFER + 1))
BurstFrames ==
    {Frame("Response", AuthNonce, 0, <<>>), Frame("Close", "", 0, <<>>)}
    \cup (IF arrived = 0 THEN {Burst} ELSE {})
ServerBursts == \E f \in BurstFrames : ServerSends(f)
PollBehind == Len(chat_messages) = CHAT_MESSAGES_BUFFER /\ PollNext

BurstNext ==
    \/ ServerBursts
    \/ \E ok \in BOOLEAN : ConnectOpen(ok)
    \/ \E ok \in BOOLEAN : SendAuth(ok)
    \/ AwaitAuth
    \/ ReaderReceives
    \/ ReaderCancelled
    \/ ReaderForwards
    \/ ReaderSendsErr
    \/ WriterCancelled
    \/ \E ok \in BOOLEAN : WriterHandles(ok)
    \/ WriterSendsErr
    \/ PingerWakes
    \/ PingerWakesLast
    \/ PingerSubmits
    \/ PollBehind
    \/ Close
    \/ DropHandle

SpecBurst == Init /\ [][BurstNext]_vars

\* the tasks are polled whenever they can run and the Pinger's timer runs
\* out; the consumer owes nothing
PingerStep == PingerWakes \/ PingerWakesLast \/ PingerSubmits
FairBurst ==
    /\ Init
    /\ [][BurstNext]_vars
    /\ WF_vars(ConnectStep)
    /\ WF_vars(ReaderStep)
    /\ WF_vars(WriterStep)
    /\ WF_vars(PingerStep)

(***************************************************************************)
(* Properties of process_request, under SpecRequest.                       *)
(***************************************************************************)
Status(code) == [kind |-> "status", code |-> code]
Returned == req_pc = "returned"
\* the outcomes of this call's attempts before the latest are all 401
Earlier401 == \A i \in 1..(Len(sent) - 1) : sent[i].outcome = Status(401)
All401 == \A i \in 1..Len(sent) : sent[i].outcome = Status(401)

\* C1: when every attempt is answered 401, the call is over right after the
\* fifth 401, and it returns only then: 5 requests, 4 refreshes (none after the
\* fifth 401) and InvalidResponse with status 401.
C1_FiveUnauthorized ==
    /\ (Returned /\ All401) =>
           /\ Len(sent) = 5
           /\ refreshes = 4
           /\ ret = InvalidResponse(401)
    /\ (Len(sent) = 5 /\ All401) => (Returned /\ refreshes = 4)
    /\ Len(sent) <= 5
C1_Witness == Returned /\ All401 /\ Len(sent) = 5 /\ ret.kind = "InvalidResponse"

\* C2: when attempts 1..k-1 are answered 401 and attempt k is answered 200 (with
\* a body that decodes), the call has returned success after k requests and
\* k-1 refreshes, k in 1..5, and no request follows a 200.
C2_SuccessOnAttemptK ==
    /\ (Len(sent) >= 1 /\ Earlier401 /\ sent[Len(sent)].outcome = Status(200)) =>
           /\ Returned
           /\ ret = OkPayload
           /\ Len(sent) \in 1..5
           /\ refreshes = Len(sent) - 1
    /\ \A i \in 1..Len(sent) :
           sent[i].outcome.code = 200 => i = Len(sent)
    /\ ret.kind = "Ok" => sent[Len(sent)].outcome = Status(200)
C2_Witness ==
    /\ Returned
    /\ ret = OkPayload
    /\ Len(sent) = 5
    /\ refreshes = 4

\* C3: an attempt answered with a status other than 200 and 401 is the call's
\* last: the call has returned InvalidResponse with that status, no refresh was
\* invoked for it, and the access token is the one that attempt carried.
C3_OtherStatusIsFinal ==
    \A i \in 1..Len(sent) :
        (sent[i].outcome.kind = "status" /\ sent[i].outcome.code \notin {200, 401}) =>
            /\ i = Len(sent)
            /\ Returned
            /\ ret = InvalidResponse(sent[i].outcome.code)
            /\ refreshes = i - 1
            /\ access_token = sent[i].token
C3_Witness ==
    /\ Returned
    /\ Len(sent) = 3
    /\ sent[3].outcome = Status(500)
    /\ ret = InvalidResponse(500)

\* C4: whatever the server answers, the call never returns EmptyError: the loop
\* does not end with result still holding its first value.
C4_NeverEmptyError ==
    /\ ret.kind # "EmptyError"
    /\ Returned => ret.kind \in {"Ok", "InvalidResponse", "TransportError", "DecodeError"}
    /\ (Returned /\ ret.kind \in {"Ok", "InvalidResponse"}) => ret = result
C4_Witness ==
    /\ Returned
    /\ loop_i = 4
    /\ attempt_counter = 5
    /\ result.kind = "InvalidResponse"

(***************************************************************************)
(* Properties of the chat stream, under Spec and FairSpec.                 *)
(***************************************************************************)
MatchingResponse == Frame("Response", AuthNonce, 0, <<>>)
AuthSent == \E i \in 1..Len(ws_out) : ws_out[i] = "Auth"

\* connect has sent Auth and waits on the slot, the Reader is at its select!
\* with the slot's Sender, and the Response with the auth nonce is what the
\* socket yields next
C5_AwaitsMatchingResponse ==
    /\ conn_pc = "await"
    /\ rd_pc = "select"
    /\ rd_auth
    /\ ws_in = <<MatchingResponse>>
\* C5 (under FairSpec): once the socket is open, Auth is sent and the server's
\* Response with the auth nonce reaches the Reader, connect returns a handle.
C5_ConnectSucceeds ==
    C5_AwaitsMatchingResponse ~> (conn_ret = "Ok" /\ handle # "none")
C5_Witness ==
    /\ conn_ret = "Ok"
    /\ handle = "open"
    /\ rd_last = <<AuthNonce, TRUE>>
    /\ wr_pc = "select"
    /\ pg_pc = "sleep"

\* C6: once Auth was sent, if the Reader met the end of the socket (a Close
\* frame, a transport error, the end of the stream) before any Response with
\* the auth nonce, then no handle is made and neither Writer nor Pinger is
\* spawned, connect returns SocketClosed if it returns, and until it has
\* returned connect or the Reader can still take a step.
C6_SocketClosedBeforeAck ==
    (AuthSent /\ closure.seen # "none" /\ closure.unresolved) =>
        /\ handle = "none"
        /\ wr_pc = "none"
        /\ pg_pc = "none"
        /\ conn_pc = "returned" => conn_ret = "SocketClosed"
        /\ conn_pc # "returned" => ENABLED (ConnectStep \/ ReaderStep)

\* the Reader takes the frame the socket yields
ReaderTakes == rd_pc = "select" /\ ws_in # <<>> /\ ws_in' = Tail(ws_in)

\* C7: the slot is resolved with Ok at most once, and only in a step in which
\* the Reader handles a Response with the auth nonce; a Response with another
\* nonce, or with the auth nonce after the first, changes neither the slot, nor
\* the keepalive state, nor the consumer's queue, and the Reader goes on.
C7_SingleResolution ==
    [][ /\ resolutions' <= 1
        /\ (resolutions' # resolutions \/ (auth_response' = "ok" /\ auth_response # "ok")) =>
               /\ ReaderTakes
               /\ Head(ws_in) = MatchingResponse
               /\ rd_auth
        /\ (/\ ReaderTakes
            /\ Head(ws_in).kind = "Response"
            /\ ~(Head(ws_in).nonce = AuthNonce /\ rd_auth)) =>
               /\ UNCHANGED <<auth_response, resolutions, rd_auth, rd_ping,
                              pg_ping, chat_messages, cancelled>>
               /\ rd_pc' = "select"
      ]_vars
C7_Witness ==
    /\ resolutions = 1
    /\ auth_response = "ok"
    /\ rd_last = <<AuthNonce, FALSE>>
    /\ rd_pc = "select"
    /\ conn_ret = "Ok"

\* the chat items among what the consumer has received
ReceivedChats == SelectSeq(received, LAMBDA item : item.ok)
ReceivedErrs == {i \in 1..Len(received) : ~received[i].ok}

\* C8: the chat items the consumer has received are, in order, the first of the
\* items the server sent (numbered 1, 2, ... as they went on the socket): none
\* is reordered, duplicated or skipped.
C8_ReceiveOrder ==
    /\ Len(ReceivedChats) <= arrived
    /\ \A i \in 1..Len(ReceivedChats) : ReceivedChats[i].v = i
C8_Witness ==
    /\ Len(ReceivedChats) = 3
    /\ frames = 3
    /\ Len(received) = 3

\* C9: once close() was called, next() gives no item any more.
C9_NothingAfterClose == after_close = 0

\* C10: the consumer receives at most one Err item, and no item after it.
C10_OneFinalErr ==
    /\ Cardinality(ReceivedErrs) <= 1
    /\ \A i \in ReceivedErrs : i = Len(received)

\* C11: when the Reader handles a Pong whose nonce parses to iteration i, with
\* gap g: if i <= acknowledged, acknowledged and interval stay as they are; if
\* i > acknowledged, acknowledged becomes i and interval becomes g seconds. No
\* step of the system makes acknowledged smaller.
C11_PongHandling ==
    [][ /\ (ReaderTakes /\ Head(ws_in).kind = "Pong" /\ ParseU64(Head(ws_in).nonce) # -1) =>
               LET i == ParseU64(Head(ws_in).nonce)
                   g == Head(ws_in).gap
               IN  /\ i <= rd_ping.acknowledged => rd_ping' = rd_ping
                   /\ i > rd_ping.acknowledged =>
                          /\ rd_ping'.acknowledged = i
                          /\ rd_ping'.interval = g
                          /\ rd_ping'.iteration = rd_ping.iteration
        /\ rd_ping'.acknowledged >= rd_ping.acknowledged
      ]_vars
C11_Witness ==
    /\ rd_pong = "stale"
    /\ rd_ping.acknowledged = 2
    /\ rd_ping.interval = 10
    /\ frames = 3

\* C12: the last acknowledged iteration never exceeds the iteration counter
\* of the pings made: the Reader's Ping holds the one, the Pinger's the other.
C12_AckWithinIteration == rd_ping.acknowledged <= pg_ping.iteration

\* C13: every sleep the Pinger starts lasts the interval the Reader's Pong
\* handling set last (the default until a fresh Pong was handled).
C13_SleepsLatestInterval ==
    [][(pg_pc # "sleep" /\ pg_pc' = "sleep") => pg_slept' = rd_ping.interval]_vars

\* C14: the Reader has been spawned when Auth is on the socket; Writer and
\* Pinger exist only once the slot was resolved with Ok and connect returned
\* Ok; until the Reader has taken the matching Response nothing but the one
\* Auth message is written, and every later frame comes after it.
C14_ConnectOrdering ==
    /\ AuthSent => rd_pc # "none"
    /\ (wr_pc # "none" \/ pg_pc # "none") => (resolutions = 1 /\ conn_ret = "Ok")
    /\ resolutions = 0 => ws_out \in {<<>>, <<"Auth">>}
    /\ \A i \in 1..Len(ws_out) : (ws_out[i] = "Auth") <=> (i = 1)
C14_Witness ==
    /\ ws_out = <<"Auth", "1">>
    /\ resolutions = 1
    /\ rd_last[1] = AuthNonce

\* C15: the cancellation flag starts false, and no step of connect, of a
\* task or of the consumer takes it from true back to false.
C15_CancelMonotonic == ~cancelled /\ [][cancelled => cancelled']_vars
C15_Witness ==
    /\ cancelled
    /\ handle = "closed"
    /\ rd_pc = "done"
    /\ wr_pc = "done"
    /\ pg_pc = "panicked"

(***************************************************************************)
(* Properties of the teardown and of the consumer's queue, under SpecBurst *)
(* and FairBurst.                                                          *)
(***************************************************************************)
\* a task has ended by an error of its own
ReaderFailed == rd_pc = "panicked" \/ (rd_pc = "done" /\ rd_err # "")
WriterFailed == wr_pc = "done" /\ wr_err # ""
PingerFailed == pg_pc = "panicked"
TaskFailed == ReaderFailed \/ WriterFailed \/ PingerFailed
\* connect is over and no task it spawned is left
TasksEnded ==
    /\ conn_pc = "returned"
    /\ ~ReaderAlive
    /\ ~WriterAlive
    /\ pg_pc \in {"none", "panicked"}

\* C16 (under FairBurst): when a task has ended by an error of its own the
\* flag is set, and from then on the other tasks come to an end too.
C16_TeardownCoupling ==
    /\ [](TaskFailed => cancelled)
    /\ TaskFailed ~> TasksEnded

\* C17 (under FairBurst): once close() was called or the handle was dropped,
\* the Reader, the Writer and the Pinger all come to an end.
C17_CancelTerminates == (handle \in {"closed", "dropped"}) ~> TasksEnded

\* the chat items among some items of the queue, and those of a frame the
\* Reader has still to take
ChatsOf(items) ==
    LET oks == SelectSeq(items, LAMBDA item : item.ok)
    IN  [i \in 1..Len(oks) |-> oks[i].v]
Untaken == IF ws_in = <<>> THEN 0 ELSE Len(Head(ws_in).items)

\* C18 (under SpecBurst): the consumer's queue never holds more than
\* CHAT_MESSAGES_BUFFER items, whoever sent them; while it is full and the
\* receiver is there, neither the Reader's nor the Writer's send can complete;
\* and every chat item the Reader took is received, queued or still to be
\* forwarded, in order, as long as the receiver is there.
C18_BoundedQueue ==
    /\ Len(chat_messages) <= CHAT_MESSAGES_BUFFER
    /\ (Len(chat_messages) = CHAT_MESSAGES_BUFFER /\ ~ReceiverDropped) =>
           /\ rd_pc \in {"forward", "send_err"} => ~ENABLED ReaderStep
           /\ wr_pc = "send_err" => ~ENABLED WriterStep
    /\ ~ReceiverDropped =>
           ChatsOf(received) \o ChatsOf(chat_messages) \o rd_batch = Batch(1, arrived - Untaken)
C18_Witness ==
    /\ Len(chat_messages) = CHAT_MESSAGES_BUFFER
    /\ chat_messages[CHAT_MESSAGES_BUFFER] = Ok(CHAT_MESSAGES_BUFFER + 1)
    /\ ChatsOf(received) = <<1>>
    /\ rd_batch = <<>>
    /\ wr_pc = "send_err"

(***************************************************************************)
(* Properties of the Reader's handling of frames it has no arm for, under  *)
(* Spec.                                                                   *)
(***************************************************************************)
\* C19: a step in which the Reader takes a transport-level Ping or Pong frame
\* leaves it running at its select!, and leaves the cancellation flag, the
\* slot and the consumer's queue as they are.
C19_ControlFrameTolerated ==
    [][ (ReaderTakes /\ Head(ws_in).kind \in {"WsPing", "WsPong"}) =>
            /\ rd_pc' = "select"
            /\ UNCHANGED <<cancelled, auth_response, chat_messages>>
      ]_vars

\* C20: when the Reader has ended on an inbound Auth or Ping message and the
\* consumer has come to the end of the stream, the consumer has received an
\* Err item.
C20_ViolationForwarded ==
    (rd_pc = "panicked" /\ rd_err = "unreachable" /\ ended) => ReceivedErrs # {}

(***************************************************************************)
(* The access token of the request executor.                               *)
(***************************************************************************)
\* C27: an attempt carries the client's access token as it is when the attempt
\* is sent; a refresh installs the token issued by it, which is newer than the
\* token of every earlier attempt, so the attempts of a call carry strictly
\* newer and newer tokens; nothing but a refresh changes the client's token,
\* which is therefore still the token issued last when the call has returned
\* and when the next call sends its first attempt
C27_CurrentToken ==
    /\ [](/\ access_token = issued
          /\ \A i, j \in 1..Len(sent) : i < j => sent[i].token < sent[j].token
          /\ \A i \in 1..Len(sent) : sent[i].token <= access_token
          /\ (req_pc = "send" /\ sent # <<>>)
             => sent[Len(sent)].token < access_token)
    /\ [][/\ Len(sent') = Len(sent) + 1
              => sent'[Len(sent')].token = access_token
          /\ (req_pc = "refresh" /\ req_pc' # "panicked")
              => access_token' = issued + 1
          /\ req_pc # "refresh" => access_token' = access_token]_vars
\* the second call on the client began with the token the first call's refresh
\* left, met a 401, and succeeded with the token of its own refresh
C27_Witness ==
    /\ calls = 2
    /\ req_pc = "returned"
    /\ ret = OkPayload
    /\ Len(sent) = 2
    /\ sent[1].token = 1
    /\ sent[2].token = 2
    /\ access_token = 2

\* the attempt made last failed at the transport, or got a 200 whose body did
\* not decode
FailedOutright ==
    /\ sent # <<>>
    /\ sent[Len(sent)].outcome.kind \in {"transport_error", "undecodable"}

\* the error `?` returns for such an outcome
ErrorOf(o) ==
    [kind |-> IF o.kind = "transport_error" THEN "TransportError" ELSE "DecodeError",
     code |-> 0]

\* C31: the attempt whose send fails, or whose 200 body does not decode, is the
\* step that returns: the call's value is that error, which is neither
\* InvalidResponse nor EmptyError, and the step invokes no refresh and leaves
\* the access token and the counter alone; in every state after such an
\* attempt the call has returned that error, the failed attempt is the call's
\* last, and the refreshes of the call are those of the 401s before it
C31_ErrorReturnedAtOnce ==
    /\ [](FailedOutright
          => /\ req_pc = "returned"
             /\ ret = ErrorOf(sent[Len(sent)].outcome)
             /\ ret.kind \notin {"InvalidResponse", "EmptyError"}
             /\ refreshes = Len(sent) - 1
             /\ access_token = issued
             /\ \A i \in 1..(Len(sent) - 1) : sent[i].outcome = Status(401))
    /\ [][(Len(sent') = Len(sent) + 1 /\ FailedOutright')
             => /\ req_pc' = "returned"
                /\ ret' = ErrorOf(sent'[Len(sent')].outcome)
                /\ UNCHANGED <<access_token, issued, refreshes, attempt_counter,
                               result, loop_i>>]_vars
\* two attempts met a 401 and were followed by a refresh; the third got a 200
\* whose body did not decode
C31_Witness ==
    /\ req_pc = "returned"
    /\ ret = [kind |-> "DecodeError", code |-> 0]
    /\ Len(sent) = 3
    /\ refreshes = 2
    /\ access_token = sent[3].token

(***************************************************************************)
(* The fatal errors of the Reader and of the Writer.                       *)
(***************************************************************************)
\* the Reader holds the Err made of a Close frame that came after the
\* handshake had succeeded, and is about to forward it
C21_Forwarding ==
    /\ rd_pc = "send_err"
    /\ rd_err = "SocketClosed"
    /\ auth_response = "ok"

\* C21: a Close frame taken after the handshake succeeded makes the Reader hold
\* a SocketClosed error; from then on it takes no frame from the socket, and its
\* one step, possible as soon as the consumer queue has room or the consumer has
\* gone, puts Err(SocketClosed) at the end of the queue (nothing when the
\* consumer has gone), ends the task and sets the cancellation flag
C21_CloseIsFatal ==
    /\ [](C21_Forwarding
            /\ (ReceiverDropped \/ Len(chat_messages) < CHAT_MESSAGES_BUFFER)
          => ENABLED ReaderSendsErr)
    /\ [][/\ (ReaderTakes /\ Head(ws_in).kind = "Close" /\ auth_response = "ok")
              => C21_Forwarding'
          /\ C21_Forwarding
              => /\ ~ReaderTakes
                 /\ rd_pc' # rd_pc
                    => /\ rd_pc' = "done"
                       /\ cancelled'
                       /\ chat_messages' =
                              IF ReceiverDropped THEN chat_messages
                              ELSE Append(chat_messages, Err("SocketClosed"))]_vars
C21_Witness ==
    /\ rd_pc = "done"
    /\ rd_err = "SocketClosed"
    /\ auth_response = "ok"
    /\ cancelled
    /\ ws_in # <<>>
    /\ chat_messages # <<>>
    /\ chat_messages[Len(chat_messages)] = Err("SocketClosed")

\* the Reader holds the Err of a frame that did not decode
C22_Forwarding ==
    /\ rd_pc = "send_err"
    /\ rd_err = "Decode"

\* C22: a Text or Binary frame that does not decode makes the Reader hold a
\* Decode error without a change to its keepalive state, to the handshake slot
\* or to the queue; from then on it takes no frame, keeps the keepalive state
\* and never resolves the slot, and its one step, possible whenever the queue
\* has room or the consumer has gone, appends exactly one Err(Decode) to the
\* queue (nothing when the consumer has gone) and ends the task
C22_DecodeIsFatal ==
    /\ [](C22_Forwarding
            /\ (ReceiverDropped \/ Len(chat_messages) < CHAT_MESSAGES_BUFFER)
          => ENABLED ReaderSendsErr)
    /\ [][/\ (ReaderTakes /\ Head(ws_in).kind = "Garbage")
              => /\ C22_Forwarding'
                 /\ UNCHANGED <<rd_ping, rd_auth, auth_response, resolutions,
                                chat_messages>>
          /\ C22_Forwarding
              => /\ ~ReaderTakes
                 /\ UNCHANGED <<rd_ping, resolutions>>
                 /\ rd_pc' # rd_pc
                    => /\ rd_pc' = "done"
                       /\ cancelled'
                       /\ chat_messages' =
                              IF ReceiverDropped THEN chat_messages
                              ELSE Append(chat_messages, Err("Decode"))]_vars
C22_Witness ==
    /\ rd_pc = "done"
    /\ rd_err = "Decode"
    /\ ws_in # <<>>
    /\ \E i \in ReceivedErrs : received[i] = Err("Decode")

\* C23: while the Reader is in the loop over a batch it holds no error; when the
\* consumer's end of the queue has gone, its next attempt to forward an item is
\* possible at once and is its last step: nothing enters the queue, the rest of
\* the batch is given up, no error is made, the task ends as after
\* Continuation::Stop and the cancellation flag is set
C23_ConsumerGone ==
    /\ [](rd_pc = "forward" => rd_err = "" /\ rd_batch # <<>>)
    /\ [](rd_pc = "forward" /\ ReceiverDropped => ENABLED ReaderForwards)
    /\ [][(rd_pc = "forward" /\ ReceiverDropped)
             => /\ chat_messages' = chat_messages
                /\ \/ UNCHANGED <<rd_pc, rd_batch>>
                   \/ /\ rd_pc' = "done"
                      /\ rd_err' = ""
                      /\ cancelled']_vars
\* connect gave up after one item of a batch had been forwarded: the Reader
\* ended at the next one, and its exit set the flag
C23_Witness ==
    /\ conn_ret = "SendError"
    /\ rd_pc = "done"
    /\ rd_err = ""
    /\ cancelled
    /\ ws_in = <<>>
    /\ Len(chat_messages) = 1
    /\ arrived = 3

\* the Writer takes a command from its queue
WriterTakes ==
    /\ wr_pc = "select"
    /\ socket_messages # <<>>
    /\ socket_messages' = Tail(socket_messages)

\* C24: a command the Writer took and could not write to the socket leaves it
\* holding that failure; from then on it writes nothing and takes no command,
\* and its one step, possible whenever the consumer queue has room or the
\* consumer has gone, appends the Err to the queue (nothing when the consumer
\* has gone), ends the task and sets the flag. Every exit of the Writer sets
\* the flag, and while the Writer lives the Pinger holds the Sender of its
\* command queue: the queue is not closed under a living Writer
C24_WriterFailure ==
    /\ [](wr_pc = "send_err" => wr_err = "WebSocket")
    /\ [](wr_pc = "send_err"
            /\ (ReceiverDropped \/ Len(chat_messages) < CHAT_MESSAGES_BUFFER)
          => ENABLED WriterSendsErr)
    /\ [](WriterAlive => pg_pc \in {"sleep", "submit"})
    /\ [][/\ (WriterTakes /\ ws_out' = ws_out)
              => wr_pc' = "send_err" /\ wr_err' = "WebSocket"
          /\ wr_pc = "send_err"
              => /\ ws_out' = ws_out
                 /\ ~(socket_messages # <<>>
                        /\ socket_messages' = Tail(socket_messages))
                 /\ wr_pc' # wr_pc
                    => /\ wr_pc' = "done"
                       /\ chat_messages' =
                              IF ReceiverDropped THEN chat_messages
                              ELSE Append(chat_messages, Err("WebSocket"))
          /\ (wr_pc # "done" /\ wr_pc' = "done") => cancelled']_vars
\* the Writer's Err entered a queue that had been full
C24_Witness ==
    /\ wr_pc = "done"
    /\ wr_err = "WebSocket"
    /\ cancelled
    /\ Len(chat_messages) = CHAT_MESSAGES_BUFFER
    /\ chat_messages[Len(chat_messages)] = Err("WebSocket")
    /\ ws_out = <<"Auth">>

(***************************************************************************)
(* A connection that carries no chat: the server sends the Response, a     *)
(* Pong that answers the latest Ping and a Close frame, and the Pinger     *)
(* goes on for MorePings further pings.                                    *)
(***************************************************************************)
QuietFrames ==
    {Frame("Response", AuthNonce, 0, <<>>), Frame("Close", "", 0, <<>>)}
    \cup (IF pg_sent = <<>> THEN {}
          ELSE {Frame("Pong", pg_sent[Len(pg_sent)], 10, <<>>)})
ServerAnswers == \E f \in QuietFrames : ServerSends(f)

QuietNext ==
    \/ ServerAnswers
    \/ \E ok \in BOOLEAN : ConnectOpen(ok)
    \/ \E ok \in BOOLEAN : SendAuth(ok)
    \/ AwaitAuth
    \/ ReaderReceives
    \/ ReaderCancelled
    \/ ReaderSendsErr
    \/ WriterCancelled
    \/ \E ok \in BOOLEAN : WriterHandles(ok)
    \/ WriterSendsErr
    \/ PingerWakes
    \/ PingerWakesAgain
    \/ PingerSubmits
    \/ PollNext
    \/ Close
    \/ DropHandle

SpecQuiet == Init /\ [][QuietNext]_vars

(***************************************************************************)
(* The Pinger.                                                             *)
(***************************************************************************)
\* C25: a submission the Pinger attempts once the Writer has gone can be
\* completed at once and only by the end of the task: no ping enters the
\* command queue and the counter stands; a Pinger that has stopped stays
\* stopped, counts no further iteration and submits nothing; and it stops for
\* no other reason than the Writer being gone
C25_PingerStops ==
    /\ [](pg_pc = "submit" /\ wr_pc = "done" => ENABLED PingerSubmits)
    /\ [](pg_pc = "panicked" => wr_pc = "done")
    /\ [][/\ (pg_pc = "submit" /\ wr_pc = "done")
              => /\ pg_pc' \in {"submit", "panicked"}
                 /\ UNCHANGED <<socket_messages, pg_ping>>
          /\ pg_pc = "panicked"
              => UNCHANGED <<pg_pc, pg_ping, pg_slept, socket_messages>>]_vars
\* the first ping was written to the socket, the second found the Writer gone
C25_Witness ==
    /\ pg_pc = "panicked"
    /\ pg_ping.iteration = 2
    /\ ws_out = <<"Auth", U64ToString(1)>>
    /\ socket_messages = <<>>

\* the nonces 1, 2, ..., n as the Pinger writes them
NoncesTo(n) == [i \in 1..n |-> U64ToString(i)]

\* C26: the counter is incremented before each submission, so the Pings
\* submitted so far carry, in order, the nonces 1, 2, ..., n, where n is the
\* counter, less the one ping that is counted and not yet, or never, submitted
C26_NoncesCount ==
    pg_sent = NoncesTo(IF pg_pc \in {"submit", "panicked"}
                       THEN pg_ping.iteration - 1
                       ELSE pg_ping.iteration)
\* three pings were submitted and all three written to the socket
C26_Witness ==
    /\ pg_sent = <<"1", "2", "3">>
    /\ ws_out = <<"Auth", "1", "2", "3">>
    /\ pg_pc = "sleep"

(***************************************************************************)
(* connect and the tasks it leaves behind.                                 *)
(***************************************************************************)
\* connect waits on the slot, the Reader holds the slot's Sender and is at its
\* select! or in the loop over a batch, and the Response with the auth nonce is
\* what the socket yields next
C28_ResponseBehindChat ==
    /\ conn_pc = "await"
    /\ rd_pc \in {"select", "forward"}
    /\ rd_auth
    /\ ws_in = <<MatchingResponse>>

\* C28 (under FairBurst): whatever chat arrived before it, the Response with
\* the auth nonce that reaches the socket is handled by the Reader and connect
\* returns a handle
C28_HandshakeNeedsNoConsumer ==
    C28_ResponseBehindChat ~> (conn_ret = "Ok" /\ handle # "none")

\* C29: when connect has returned an error after it spawned the Reader, the
\* Reader has ended or the cancellation flag is set
C29_NoTaskLeftBehind ==
    (conn_pc = "returned" /\ conn_ret \in {"SendError", "SocketClosed"})
        => (~ReaderAlive \/ cancelled)

\* the consumer holds the handle, and the Reader and the Writer have both ended
C30_BothExited ==
    /\ handle \in {"open", "closed"}
    /\ ~ReaderAlive
    /\ ~WriterAlive

====
